---- MODULE Spec2Model ----
(***************************************************************************)
(* Reverse-tunnel file download: the client (src/client.py) dials out,     *)
(* registers and streams a requested file in chunks; the server            *)
(* (src/server.py) keeps a registry of tunnels and a tracker of downloads. *)
(***************************************************************************)
EXTENDS Integers, Sequences, FiniteSets, TLC

\* ------------------------------------------------------------------ bounds
MaxFileLen == 3
MaxChunkSize == 2
MaxTunnels == 2
MaxDownloads == 2
MaxTime == 1
MaxInject == 3

None == "None"

\* ------------------------------------------------------------------ codec
\* Byte values for files of several bytes, one of each kind the JSON
\* encoder treats differently: a control character with a short escape, a
\* plain character, the backslash, and a byte of the upper half.
SampleBytes == {10, 65, 92, 255}

AllBytes == 0..255

\* bytes.decode('latin1'): byte b becomes the code point U+00b.
Latin1Decode(bs) == [i \in 1..Len(bs) |-> bs[i]]

\* str.encode('latin1'): code point c < 256 becomes byte c.
Latin1Encode(s) == [i \in 1..Len(s) |-> s[i]]

RECURSIVE Utf8Encode(_)
Utf8Encode(s) ==
    IF s = <<>> THEN <<>>
    ELSE IF Head(s) < 128 THEN <<Head(s)>> \o Utf8Encode(Tail(s))
    ELSE <<192 + (Head(s) \div 64), 128 + (Head(s) % 64)>> \o Utf8Encode(Tail(s))

\* what handle_file_chunk writes for the str it got: chunk_data.encode('latin1')
EncodeChunkMutUtf8(s) == Utf8Encode(s)

EncodeChunk(s) == Latin1Encode(s)

HexDigit(n) == IF n < 10 THEN 48 + n ELSE 87 + n

HexValue(c) == IF c \in 48..57 THEN c - 48
               ELSE IF c \in 97..102 THEN c - 87
               ELSE IF c \in 65..70 THEN c - 55
               ELSE -1

\* json.dumps of one character of a str (ensure_ascii): the text it emits,
\* as ASCII codes.  92 is the backslash, 117 is 'u'.
JsonEscapeChar(c) ==
    CASE c = 92 -> <<92, 92>>
      [] c = 34 -> <<92, 34>>
      [] c = 8  -> <<92, 98>>
      [] c = 12 -> <<92, 102>>
      [] c = 10 -> <<92, 110>>
      [] c = 13 -> <<92, 114>>
      [] c = 9  -> <<92, 116>>
      [] c \in 32..126 /\ c # 92 /\ c # 34 -> <<c>>
      [] OTHER -> <<92, 117, HexDigit((c \div 4096) % 16), HexDigit((c \div 256) % 16),
                    HexDigit((c \div 16) % 16), HexDigit(c % 16)>>

RECURSIVE JsonDumpsBody(_)
JsonDumpsBody(s) ==
    IF s = <<>> THEN <<>> ELSE JsonEscapeChar(Head(s)) \o JsonDumpsBody(Tail(s))

\* json.dumps of a str value: the quoted, escaped text
JsonDumpsStr(s) == <<34>> \o JsonDumpsBody(s) \o <<34>>

\* json.loads of the inside of a quoted string: the characters it denotes
RECURSIVE JsonLoadsBody(_)
JsonLoadsBody(t) ==
    IF t = <<>> THEN <<>>
    ELSE IF Head(t) # 92 THEN <<Head(t)>> \o JsonLoadsBody(Tail(t))
    ELSE LET e == t[2] IN
         IF e = 117
         THEN <<HexValue(t[3]) * 4096 + HexValue(t[4]) * 256
                  + HexValue(t[5]) * 16 + HexValue(t[6])>>
              \o JsonLoadsBody(SubSeq(t, 7, Len(t)))
         ELSE << CASE e = 98 -> 8
                   [] e = 102 -> 12
                   [] e = 110 -> 10
                   [] e = 114 -> 13
                   [] e = 116 -> 9
                   [] OTHER -> e >>
              \o JsonLoadsBody(SubSeq(t, 3, Len(t)))

JsonLoadsStr(t) == JsonLoadsBody(SubSeq(t, 2, Len(t) - 1))

\* the 'data' field as it travels: chunk.decode('latin1') through send_json
WireData(chunk) == JsonDumpsStr(Latin1Decode(chunk))

\* the bytes handle_file_chunk appends for a 'data' field taken off the wire
WrittenBytes(wire) == EncodeChunk(JsonLoadsStr(wire))

\* ------------------------------------------------------------------ state
VARIABLES
    fs,                 \* the client machine's files: expanded path -> [kind, bytes]
    chunk_size,         \* FileDownloadClient.chunk_size
    cl,                 \* the client process: position in run/connect/message_loop/send_file and send_file's locals
    tun,                \* the websocket connections ever opened: both ends, both queues
    ntun,               \* how many connections have been opened
    connected_clients,  \* FileDownloadServer.connected_clients: client_id -> websocket
    downloads,          \* FileDownloadServer.downloads: download_id -> record
    disk,               \* the server's download_dir: file name -> bytes
    now,                \* the server's clock, in seconds
    nuuid,              \* how many uuid4 values have been drawn
    resp,               \* the last answer of trigger_download
    wire,               \* per connection, every message its client end has sent
    inj,                \* messages sent so far by peers that are not this client program
    via                 \* download_id -> the connection its download_request was sent on

vars == <<fs, chunk_size, cl, tun, ntun, connected_clients, downloads, disk,
          now, nuuid, resp, wire, inj, via>>

Tunnels == 1..MaxTunnels

\* the --client-id of the client process
ClientId == "site-7"

\* client_id values an HTTP request or a register message may carry
Identities == {"site-7", "site-9", ""}

\* uuid.uuid4(): the n-th value drawn; distinct draws give distinct values
Uuid(n) == "d" \o ToString(n)

\* a download_id no uuid4 draw of this run returns
BogusId == "d0"

\* file_path values a request may carry, and what expandvars/expanduser
\* make of them on the client machine
RemotePaths == {"$HOME/report.csv", "/nope"}

Expand(p) == IF p = "$HOME/report.csv" THEN "/home/u/report.csv" ELSE p

\* dict[key] = value on a dict that may lack the key
SetKey(r, k, v) == (k :> v) @@ r

DelKey(f, k) == [x \in DOMAIN f \ {k} |-> f[x]]

NewTunnel(owner) ==
    [owner |-> owner, c2s |-> <<>>, s2c |-> <<>>, c_open |-> TRUE,
     s_open |-> TRUE, broken |-> FALSE, client_id |-> None]

Opened == 1..ntun

\* ------------------------------------------------------------------ server
\* f"{client_id}_{utcnow:%Y%m%d_%H%M%S}_file_to_download.txt"
LocalFilename(client_id, t) == <<client_id, t>>

\* the record trigger_download stores
NewRecord(download_id, client_id, file_path) ==
    [download_id |-> download_id,
     client_id |-> client_id,
     file_path |-> LocalFilename(client_id, now),
     remote_path |-> file_path,
     status |-> "downloading",
     started_at |-> now,
     chunks_received |-> 0]

\* open(file_path, 'ab'); f.write(b)
AppendFile(d, path, b) ==
    IF path \in DOMAIN d THEN [d EXCEPT ![path] = @ \o b] ELSE (path :> b) @@ d

\* download_info['chunks_received'] = chunk_num
ChunksReceived(old, chunk_num) == chunk_num

\* handle_file_chunk: the tracker and the disk after it
ChunkDownloads(data) ==
    IF data.download_id \notin DOMAIN downloads THEN downloads
    ELSE [downloads EXCEPT ![data.download_id].chunks_received =
                               ChunksReceived(@, data.chunk_num)]

ChunkDisk(data) ==
    IF data.download_id \notin DOMAIN downloads THEN disk
    ELSE AppendFile(disk, downloads[data.download_id].file_path,
                    WrittenBytes(data.data))

\* handle_file_complete: "if download_id in self.downloads"
CompleteKnown(data) == data.download_id \in DOMAIN downloads

CompleteSizeMutChunks(data) == data.total_chunks

\* handle_file_complete: total_size = data.get('total_size')
CompleteSize(data) == data.total_size

\* handle_file_complete: the tracker after it
CompleteDownloads(data) ==
    IF ~CompleteKnown(data) THEN downloads
    ELSE [downloads EXCEPT ![data.download_id] =
            SetKey(SetKey(SetKey(@, "status", "completed"),
                          "completed_at", now),
                   "total_size", CompleteSize(data))]

\* handle_client_error: "if download_id in self.downloads"
ErrorKnown(data) == data.download_id \in DOMAIN downloads

ErrorDownloadsMutCreate(data) ==
    IF ~ErrorKnown(data)
    THEN SetKey(downloads, data.download_id,
                [status |-> "failed", error |-> data.message])
    ELSE [downloads EXCEPT ![data.download_id] =
            SetKey(SetKey(@, "status", "failed"), "error", data.message)]

\* handle_client_error: the tracker after it
ErrorDownloads(data) ==
    IF ~ErrorKnown(data) THEN downloads
    ELSE [downloads EXCEPT ![data.download_id] =
            SetKey(SetKey(@, "status", "failed"), "error", data.message)]

\* websocket_handler's finally: "if client_id and client_id in
\* self.connected_clients: del self.connected_clients[client_id]"
Unregister(t, client_id) ==
    IF client_id # None /\ client_id # "" /\ client_id \in DOMAIN connected_clients
    THEN DelKey(connected_clients, client_id)
    ELSE connected_clients

\* whether a send_json by the server on connection t can raise / can succeed
ServerSendMayRaise(t) == ~tun[t].s_open \/ ~tun[t].c_open \/ tun[t].broken

ServerSendMaySucceed(t) == tun[t].s_open

\* json.loads(msg.data) raises on it, or data.get does
Malformed(msg) == msg.type = "malformed"

\* websocket_handler, one message read by "async for msg in ws"
ServerRecv(t) ==
    /\ t \in Opened
    /\ tun[t].s_open
    /\ tun[t].c2s # <<>>
    /\ LET msg == Head(tun[t].c2s)
           rest == Tail(tun[t].c2s)
       IN
       CASE Malformed(msg) ->
              \* the exception leaves the loop through finally
              /\ connected_clients' = Unregister(t, tun[t].client_id)
              /\ tun' = [tun EXCEPT ![t].c2s = rest, ![t].s_open = FALSE]
              /\ UNCHANGED <<downloads, disk>>
         [] msg.type = "register" ->
              /\ \/ /\ connected_clients' = SetKey(connected_clients, msg.client_id, t)
                    /\ tun' = [tun EXCEPT ![t].c2s = rest,
                                          ![t].client_id = msg.client_id,
                                          ![t].s2c = Append(@, [type |-> "registered"])]
                 \/ \* send_json raises: out through finally, which
                    \* removes the entry just made
                    /\ ServerSendMayRaise(t)
                    /\ connected_clients' =
                         IF msg.client_id # None /\ msg.client_id # ""
                         THEN DelKey(connected_clients, msg.client_id)
                         ELSE SetKey(connected_clients, msg.client_id, t)
                    /\ tun' = [tun EXCEPT ![t].c2s = rest,
                                          ![t].client_id = msg.client_id,
                                          ![t].s_open = FALSE]
              /\ UNCHANGED <<downloads, disk>>
         [] msg.type = "file_chunk" ->
              /\ downloads' = ChunkDownloads(msg)
              /\ disk' = ChunkDisk(msg)
              /\ tun' = [tun EXCEPT ![t].c2s = rest]
              /\ UNCHANGED connected_clients
         [] msg.type = "file_complete" ->
              /\ downloads' = CompleteDownloads(msg)
              /\ tun' = [tun EXCEPT ![t].c2s = rest]
              /\ UNCHANGED <<connected_clients, disk>>
         [] msg.type = "error" ->
              /\ downloads' = ErrorDownloads(msg)
              /\ tun' = [tun EXCEPT ![t].c2s = rest]
              /\ UNCHANGED <<connected_clients, disk>>
         [] OTHER ->
              /\ tun' = [tun EXCEPT ![t].c2s = rest]
              /\ UNCHANGED <<connected_clients, downloads, disk>>
    /\ UNCHANGED <<fs, chunk_size, cl, ntun, now, nuuid, resp, wire, inj, via>>

\* websocket_handler: the "async for" ends (the peer closed, or the
\* connection broke) and finally runs
ServerClose(t) ==
    /\ t \in Opened
    /\ tun[t].s_open
    /\ \/ tun[t].broken
       \/ ~tun[t].c_open /\ tun[t].c2s = <<>>
    /\ connected_clients' = Unregister(t, tun[t].client_id)
    /\ tun' = [tun EXCEPT ![t].s_open = FALSE]
    /\ UNCHANGED <<fs, chunk_size, cl, ntun, downloads, disk, now, nuuid,
                   resp, wire, inj, via>>

RegisteredMutAny(client_id) == connected_clients # <<>>

\* trigger_download: "client_id in self.connected_clients"
Registered(client_id) == client_id \in DOMAIN connected_clients

TriggerDownloadMutSendFirst(client_id, file_path) ==
    /\ UNCHANGED <<fs, chunk_size, cl, ntun, connected_clients, disk, now, wire, inj>>
    /\ IF client_id = None \/ client_id = "" \/ ~Registered(client_id)
       THEN /\ resp' = [status |-> 404, download_id |-> None]
            /\ UNCHANGED <<downloads, tun, nuuid, via>>
       ELSE /\ nuuid < MaxDownloads
            /\ ServerSendMaySucceed(connected_clients[client_id])
            /\ nuuid' = nuuid + 1
            /\ UNCHANGED downloads
            /\ tun' = [tun EXCEPT ![connected_clients[client_id]].s2c =
                         Append(@, [type |-> "download_request",
                                    download_id |-> Uuid(nuuid + 1),
                                    file_path |-> file_path])]
            /\ resp' = [status |-> 200, download_id |-> Uuid(nuuid + 1)]
            /\ via' = SetKey(via, Uuid(nuuid + 1), connected_clients[client_id])

\* trigger_download, one HTTP request
TriggerDownload(client_id, file_path) ==
    /\ UNCHANGED <<fs, chunk_size, cl, ntun, connected_clients, disk, now, wire, inj>>
    /\ IF client_id = None \/ client_id = ""
       THEN \* "if not client_id": 400, client_id is required
            /\ resp' = [status |-> 400, download_id |-> None]
            /\ UNCHANGED <<downloads, tun, nuuid, via>>
       ELSE IF ~Registered(client_id)
       THEN \* 404, client is not connected
            /\ resp' = [status |-> 404, download_id |-> None]
            /\ UNCHANGED <<downloads, tun, nuuid, via>>
       ELSE /\ nuuid < MaxDownloads
            /\ LET download_id == Uuid(nuuid + 1) IN
               /\ nuuid' = nuuid + 1
               /\ downloads' = SetKey(downloads, download_id,
                                      NewRecord(download_id, client_id, file_path))
               /\ IF client_id \notin DOMAIN connected_clients
                  THEN \* self.connected_clients[client_id] raises KeyError,
                       \* which "except Exception" answers with 500
                       /\ UNCHANGED <<tun, via>>
                       /\ resp' = [status |-> 500, download_id |-> None]
                  ELSE LET ws == connected_clients[client_id] IN
                       \/ /\ ServerSendMaySucceed(ws)
                          /\ tun' = [tun EXCEPT ![ws].s2c =
                                       Append(@, [type |-> "download_request",
                                                  download_id |-> download_id,
                                                  file_path |-> file_path])]
                          /\ resp' = [status |-> 200, download_id |-> download_id]
                          /\ via' = SetKey(via, download_id, ws)
                       \/ \* send_json raises: 500, the record stays
                          /\ ServerSendMayRaise(ws)
                          /\ UNCHANGED <<tun, via>>
                          /\ resp' = [status |-> 500, download_id |-> None]

\* datetime.utcnow() moves on to the next second
Tick ==
    /\ now < MaxTime
    /\ now' = now + 1
    /\ UNCHANGED <<fs, chunk_size, cl, tun, ntun, connected_clients, downloads,
                   disk, nuuid, resp, wire, inj, via>>

\* the network drops connection t; each end finds out by itself
NetBreak(t) ==
    /\ t \in Opened
    /\ ~tun[t].broken
    /\ tun[t].c_open \/ tun[t].s_open
    /\ tun' = [tun EXCEPT ![t].broken = TRUE]
    /\ UNCHANGED <<fs, chunk_size, cl, ntun, connected_clients, downloads, disk,
                   now, nuuid, resp, wire, inj, via>>

\* ------------------------------------------------------------------ client
Min(a, b) == IF a < b THEN a ELSE b

TotalChunksMutFloor(file_size, cs) == file_size \div cs

\* send_file: total_chunks = (file_size + self.chunk_size - 1) // self.chunk_size
TotalChunks(file_size, cs) == (file_size + cs - 1) \div cs

\* f.read(self.chunk_size) at offset pos
ReadChunk(bytes, pos, cs) == SubSeq(bytes, pos + 1, Min(pos + cs, Len(bytes)))

NoLocals ==
    [download_id |-> None, path |-> None, pos |-> 0, file_size |-> 0,
     total_chunks |-> 0, chunk_num |-> 0, bytes_sent |-> 0]

\* whether a send_json by the client on its connection can raise
ClientSendMayRaise == ~tun[cl.ws].s_open \/ tun[cl.ws].broken

\* the client sends m on its connection (whose state, with the message
\* being handled taken off, is base) and goes on at pc with locals loc
ClientSends(base, m, pc, loc) ==
    /\ tun' = [base EXCEPT ![cl.ws].c2s = Append(@, m)]
    /\ wire' = [wire EXCEPT ![cl.ws] = Append(@, m)]
    /\ cl' = [cl EXCEPT !.pc = pc, !.loc = loc]

ClientLeavesMutGiveUp(base) ==
    /\ tun' = [base EXCEPT ![cl.ws].c_open = FALSE]
    /\ cl' = [cl EXCEPT !.pc = "stopped", !.loc = NoLocals]
    /\ UNCHANGED wire

\* an exception leaves message_loop (or the loop ends); connect's finally
\* closes the websocket; run goes on to its sleep
ClientLeaves(base) ==
    /\ tun' = [base EXCEPT ![cl.ws].c_open = FALSE]
    /\ cl' = [cl EXCEPT !.pc = "sleep", !.loc = NoLocals]
    /\ UNCHANGED wire

\* send m; when that send raises inside send_file, handle_download_request's
\* error send raises as well, and the exception leaves message_loop
ClientSendsOrLeaves(base, m, pc, loc) ==
    \/ ClientSends(base, m, pc, loc)
    \/ ClientSendMayRaise /\ ClientLeaves(base)

\* connect: ws_connect succeeds and register is sent
ClientConnect ==
    /\ cl.pc = "connect"
    /\ ntun < MaxTunnels
    /\ ntun' = ntun + 1
    /\ LET m == [type |-> "register", client_id |-> ClientId] IN
       /\ tun' = [tun EXCEPT ![ntun + 1] = [NewTunnel("client") EXCEPT !.c2s = <<m>>]]
       /\ wire' = [wire EXCEPT ![ntun + 1] = <<m>>]
    /\ cl' = [cl EXCEPT !.pc = "loop", !.ws = ntun + 1]
    /\ UNCHANGED <<fs, chunk_size, connected_clients, downloads, disk, now,
                   nuuid, resp, inj, via>>

\* connect: ws_connect raises; run goes on to its sleep
ClientConnectFail ==
    /\ cl.pc = "connect"
    /\ cl' = [cl EXCEPT !.pc = "sleep"]
    /\ UNCHANGED <<fs, chunk_size, tun, ntun, connected_clients, downloads,
                   disk, now, nuuid, resp, wire, inj, via>>

\* run: asyncio.sleep(retry_delay) is over, "while self.running" again
ClientWake ==
    /\ cl.pc = "sleep"
    /\ cl' = [cl EXCEPT !.pc = "connect"]
    /\ UNCHANGED <<fs, chunk_size, tun, ntun, connected_clients, downloads,
                   disk, now, nuuid, resp, wire, inj, via>>

\* handle_download_request up to send_file's first read
StartSend(base, msg) ==
    LET path == Expand(msg.file_path) IN
    IF path \notin DOMAIN fs
    THEN \* FileNotFoundError, reported by handle_download_request
         ClientSendsOrLeaves(base, [type |-> "error", download_id |-> msg.download_id,
                                    message |-> "File not found"], "loop", NoLocals)
    ELSE IF fs[path].kind # "file"
    THEN \* open() raises
         ClientSendsOrLeaves(base, [type |-> "error", download_id |-> msg.download_id,
                                    message |-> "Is a directory"], "loop", NoLocals)
    ELSE /\ cl' = [cl EXCEPT !.pc = "send",
                             !.loc = [download_id |-> msg.download_id,
                                      path |-> path,
                                      pos |-> 0,
                                      file_size |-> Len(fs[path].bytes),
                                      total_chunks |-> TotalChunks(Len(fs[path].bytes),
                                                                   chunk_size),
                                      chunk_num |-> 0,
                                      bytes_sent |-> 0]]
         /\ tun' = base
         /\ UNCHANGED wire

ClientRecvMutAnytime ==
    /\ cl.pc \in {"loop", "send"}
    /\ tun[cl.ws].s2c # <<>>
    /\ LET msg == Head(tun[cl.ws].s2c)
           base == [tun EXCEPT ![cl.ws].s2c = Tail(@)]
       IN
       CASE Malformed(msg) -> ClientLeaves(base)
         [] msg.type = "download_request" -> StartSend(base, msg)
         [] msg.type = "ping" ->
              ClientSendsOrLeaves(base, [type |-> "pong"], "loop", NoLocals)
         [] OTHER ->
              /\ tun' = base
              /\ UNCHANGED <<cl, wire>>
    /\ UNCHANGED <<fs, chunk_size, ntun, connected_clients, downloads, disk,
                   now, nuuid, resp, inj, via>>

\* message_loop, one message read by "async for msg in self.ws"
ClientRecv ==
    /\ cl.pc = "loop"
    /\ tun[cl.ws].s2c # <<>>
    /\ LET msg == Head(tun[cl.ws].s2c)
           base == [tun EXCEPT ![cl.ws].s2c = Tail(@)]
       IN
       CASE Malformed(msg) -> ClientLeaves(base)
         [] msg.type = "download_request" -> StartSend(base, msg)
         [] msg.type = "ping" ->
              ClientSendsOrLeaves(base, [type |-> "pong"], "loop", NoLocals)
         [] OTHER ->
              /\ tun' = base
              /\ UNCHANGED <<cl, wire>>
    /\ UNCHANGED <<fs, chunk_size, ntun, connected_clients, downloads, disk,
                   now, nuuid, resp, inj, via>>

ClientSendStepMutBoth ==
    /\ cl.pc = "send"
    /\ LET loc == cl.loc
           chunk == ReadChunk(fs[loc.path].bytes, loc.pos, chunk_size)
           done == [type |-> "file_complete", download_id |-> loc.download_id,
                    total_size |-> loc.file_size, total_chunks |-> loc.chunk_num]
           err == [type |-> "error", download_id |-> loc.download_id,
                   message |-> "late"]
       IN
       IF chunk = <<>>
       THEN /\ tun' = [tun EXCEPT ![cl.ws].c2s = Append(Append(@, done), err)]
            /\ wire' = [wire EXCEPT ![cl.ws] = Append(Append(@, done), err)]
            /\ cl' = [cl EXCEPT !.pc = "loop", !.loc = NoLocals]
       ELSE ClientSendsOrLeaves(tun, [type |-> "file_chunk",
                                      download_id |-> loc.download_id,
                                      chunk_num |-> loc.chunk_num + 1,
                                      total_chunks |-> loc.total_chunks,
                                      data |-> WireData(chunk)],
                                "send",
                                [loc EXCEPT !.pos = @ + Len(chunk),
                                            !.chunk_num = @ + 1,
                                            !.bytes_sent = @ + Len(chunk)])
    /\ UNCHANGED <<fs, chunk_size, ntun, connected_clients, downloads, disk,
                   now, nuuid, resp, inj, via>>

ClientSendStepMutZeroBased ==
    /\ cl.pc = "send"
    /\ LET loc == cl.loc
           chunk == ReadChunk(fs[loc.path].bytes, loc.pos, chunk_size)
       IN
       IF chunk = <<>>
       THEN ClientSendsOrLeaves(tun, [type |-> "file_complete",
                                      download_id |-> loc.download_id,
                                      total_size |-> loc.file_size,
                                      total_chunks |-> loc.chunk_num],
                                "loop", NoLocals)
       ELSE ClientSendsOrLeaves(tun, [type |-> "file_chunk",
                                      download_id |-> loc.download_id,
                                      chunk_num |-> loc.chunk_num,
                                      total_chunks |-> loc.total_chunks,
                                      data |-> WireData(chunk)],
                                "send",
                                [loc EXCEPT !.pos = @ + Len(chunk),
                                            !.chunk_num = @ + 1,
                                            !.bytes_sent = @ + Len(chunk)])
    /\ UNCHANGED <<fs, chunk_size, ntun, connected_clients, downloads, disk,
                   now, nuuid, resp, inj, via>>

\* send_file, one turn of "while True" (or the file_complete after it)
ClientSendStep ==
    /\ cl.pc = "send"
    /\ LET loc == cl.loc
           chunk == ReadChunk(fs[loc.path].bytes, loc.pos, chunk_size)
       IN
       IF chunk = <<>>
       THEN ClientSendsOrLeaves(tun, [type |-> "file_complete",
                                      download_id |-> loc.download_id,
                                      total_size |-> loc.file_size,
                                      total_chunks |-> loc.chunk_num],
                                "loop", NoLocals)
       ELSE ClientSendsOrLeaves(tun, [type |-> "file_chunk",
                                      download_id |-> loc.download_id,
                                      chunk_num |-> loc.chunk_num + 1,
                                      total_chunks |-> loc.total_chunks,
                                      data |-> WireData(chunk)],
                                "send",
                                [loc EXCEPT !.pos = @ + Len(chunk),
                                            !.chunk_num = @ + 1,
                                            !.bytes_sent = @ + Len(chunk)])
    /\ UNCHANGED <<fs, chunk_size, ntun, connected_clients, downloads, disk,
                   now, nuuid, resp, inj, via>>

\* message_loop: the "async for" ends (the server closed, or the
\* connection broke)
ClientObserveClose ==
    /\ cl.pc = "loop"
    /\ \/ tun[cl.ws].broken
       \/ ~tun[cl.ws].s_open /\ tun[cl.ws].s2c = <<>>
    /\ ClientLeaves(tun)
    /\ UNCHANGED <<fs, chunk_size, ntun, connected_clients, downloads, disk,
                   now, nuuid, resp, inj, via>>

\* the user interrupts the client (KeyboardInterrupt): connect's finally
\* closes the websocket and run ends
ClientStop ==
    /\ cl.pc # "stopped"
    /\ cl' = [cl EXCEPT !.pc = "stopped", !.running = FALSE, !.loc = NoLocals]
    /\ tun' = IF cl.pc \in {"loop", "send"}
              THEN [tun EXCEPT ![cl.ws].c_open = FALSE]
              ELSE tun
    /\ UNCHANGED <<fs, chunk_size, ntun, connected_clients, downloads, disk,
                   now, nuuid, resp, wire, inj, via>>

\* ------------------------------------------------------------------ peers
\* what a peer that is not this client program may send to the server
InjectedIds == {Uuid(1), BogusId}

PeerMessages ==
    [type : {"register"}, client_id : {"site-7", "site-9"}]
    \cup [type : {"file_chunk"}, download_id : {Uuid(1)}, chunk_num : {1, 2},
          total_chunks : {2}, data : {WireData(<<66>>)}]
    \cup [type : {"file_chunk"}, download_id : {BogusId}, chunk_num : {1},
          total_chunks : {2}, data : {WireData(<<66>>)}]
    \cup [type : {"file_complete"}, download_id : InjectedIds, total_size : {7},
          total_chunks : {2}]
    \cup [type : {"error"}, download_id : InjectedIds, message : {"boom"}]
    \cup [type : {"malformed"}]

\* another program opens a websocket to /ws
PeerConnect ==
    /\ ntun < MaxTunnels
    /\ ntun' = ntun + 1
    /\ tun' = [tun EXCEPT ![ntun + 1] = NewTunnel("peer")]
    /\ UNCHANGED <<fs, chunk_size, cl, connected_clients, downloads, disk, now,
                   nuuid, resp, wire, inj, via>>

\* it sends a message of its choice
PeerSend(t, m) ==
    /\ t \in Opened
    /\ tun[t].owner = "peer"
    /\ tun[t].c_open
    /\ inj < MaxInject
    /\ inj' = inj + 1
    /\ tun' = [tun EXCEPT ![t].c2s = Append(@, m)]
    /\ wire' = [wire EXCEPT ![t] = Append(@, m)]
    /\ UNCHANGED <<fs, chunk_size, cl, ntun, connected_clients, downloads, disk,
                   now, nuuid, resp, via>>

\* it closes its websocket
PeerClose(t) ==
    /\ t \in Opened
    /\ tun[t].owner = "peer"
    /\ tun[t].c_open
    /\ tun' = [tun EXCEPT ![t].c_open = FALSE]
    /\ UNCHANGED <<fs, chunk_size, cl, ntun, connected_clients, downloads, disk,
                   now, nuuid, resp, wire, inj, via>>

\* the far end of the client's connection sends it a ping, or text that is
\* no message; "at" notes how many messages the client had sent by then
ToClient(type) ==
    /\ cl.pc \in {"loop", "send"}
    /\ tun[cl.ws].s_open
    /\ inj < MaxInject
    /\ inj' = inj + 1
    /\ tun' = [tun EXCEPT ![cl.ws].s2c =
                 Append(@, [type |-> type, at |-> Len(wire[cl.ws])])]
    /\ UNCHANGED <<fs, chunk_size, cl, ntun, connected_clients, downloads, disk,
                   now, nuuid, resp, wire, via>>

\* ------------------------------------------------------------------ specifications
\* the files of the client machine in the scenario runs
ClientFiles ==
    [p \in {"/home/u/report.csv"} |-> [kind |-> "file", bytes |-> <<65, 255, 10>>]]

InitRest ==
    /\ cl = [pc |-> "connect", ws |-> 0, running |-> TRUE, loc |-> NoLocals]
    /\ tun = [t \in Tunnels |-> [NewTunnel("none") EXCEPT !.c_open = FALSE,
                                                          !.s_open = FALSE]]
    /\ ntun = 0
    /\ connected_clients = <<>>
    /\ downloads = <<>>
    /\ disk = <<>>
    /\ now = 0
    /\ nuuid = 0
    /\ resp = [status |-> 0, download_id |-> None]
    /\ wire = [t \in Tunnels |-> <<>>]
    /\ inj = 0
    /\ via = <<>>

Init ==
    /\ fs = ClientFiles
    /\ chunk_size = MaxChunkSize
    /\ InitRest

ServerStep == \E t \in Tunnels : ServerRecv(t) \/ ServerClose(t)

ClientStep ==
    \/ ClientConnect
    \/ ClientConnectFail
    \/ ClientWake
    \/ ClientRecv
    \/ ClientSendStep
    \/ ClientObserveClose

Environment ==
    \/ \E c \in Identities, p \in RemotePaths : TriggerDownload(c, p)
    \/ Tick
    \/ \E t \in Tunnels : NetBreak(t)
    \/ ClientStop

Next == ServerStep \/ ClientStep \/ Environment

Spec == Init /\ [][Next]_vars

\* the server alone, with peers that send what they like
NextOpen ==
    \/ ServerStep
    \/ nuuid = 0 /\ TriggerDownload(ClientId, "/nope")
    \/ PeerConnect
    \/ \E t \in Tunnels, m \in PeerMessages : PeerSend(t, m)
    \/ \E t \in Tunnels : PeerClose(t)

SpecOpen == Init /\ [][NextOpen]_vars

\* client and server on a network that does not fail, with a far end that
\* also sends pings and text that is no message
NextNoise ==
    \/ ServerStep
    \/ ClientConnect \/ ClientWake \/ ClientRecv \/ ClientSendStep
    \/ \E p \in RemotePaths : TriggerDownload(ClientId, p)
    \/ \E type \in {"ping", "malformed"} : ToClient(type)
    \/ PeerConnect
    \/ \E t \in Tunnels : PeerSend(t, [type |-> "malformed"])

SpecNoise == Init /\ [][NextNoise]_vars

\* the scheduling of the two programs: the event loop runs every task that
\* can run; the requester, the clock, the network and the user owe nothing
Fairness == WF_vars(ServerStep) /\ WF_vars(ClientStep)

\* client and server on a network that drops connections
NextLossy ==
    \/ ServerStep
    \/ ClientConnect \/ ClientWake \/ ClientRecv \/ ClientSendStep \/ ClientObserveClose
    \/ \E p \in RemotePaths : TriggerDownload(ClientId, p)
    \/ \E t \in Tunnels : NetBreak(t)

SpecFair == Init /\ [][NextLossy]_vars /\ Fairness

\* client and server on a network that drops connections and refuses them,
\* with a user who may interrupt the client
NextRetry ==
    \/ ServerStep
    \/ ClientStep
    \/ nuuid = 0 /\ TriggerDownload(ClientId, "$HOME/report.csv")
    \/ \E t \in Tunnels : NetBreak(t)
    \/ ClientStop

SpecRetry == Init /\ [][NextRetry]_vars /\ Fairness

\* one transfer of one file, for every file content and chunk size
FileContents ==
    UNION {[1..n -> SampleBytes] : n \in 0..MaxFileLen}
    \cup {<<b>> : b \in AllBytes}

InitXfer ==
    /\ \E bytes \in FileContents :
          fs = [p \in {"/home/u/report.csv"} |-> [kind |-> "file", bytes |-> bytes]]
    /\ chunk_size \in 1..MaxChunkSize
    /\ InitRest

NextXfer ==
    \/ \E t \in Tunnels : ServerRecv(t)
    \/ ClientConnect \/ ClientRecv \/ ClientSendStep
    \/ nuuid = 0 /\ TriggerDownload(ClientId, "$HOME/report.csv")

SpecXfer == InitXfer /\ [][NextXfer]_vars

\* ------------------------------------------------------------------ properties
\* the messages of connection t the server's handler has taken off the queue
Processed(t) == SubSeq(wire[t], 1, Len(wire[t]) - Len(tun[t].c2s))

IsChunkFor(m, d) == m.type = "file_chunk" /\ m.download_id = d

IsCompleteFor(m, d) == m.type = "file_complete" /\ m.download_id = d

\* the bytes the file_chunk messages of seq for download d stand for, in order
RECURSIVE Payloads(_, _)
Payloads(seq, d) ==
    IF seq = <<>> THEN <<>>
    ELSE (IF IsChunkFor(Head(seq), d) THEN WrittenBytes(Head(seq).data) ELSE <<>>)
         \o Payloads(Tail(seq), d)

\* the sum of the payload lengths of the file_chunk messages of seq for d,
\* each the number of characters the 'data' field holds
RECURSIVE PayloadLength(_, _)
PayloadLength(seq, d) ==
    IF seq = <<>> THEN 0
    ELSE (IF IsChunkFor(Head(seq), d) THEN Len(JsonLoadsStr(Head(seq).data)) ELSE 0)
         + PayloadLength(Tail(seq), d)

IsPrefix(a, b) == Len(a) <= Len(b) /\ a = SubSeq(b, 1, Len(a))

DiskContent(path) == IF path \in DOMAIN disk THEN disk[path] ELSE <<>>

\* the bytes of the client file a download asks for
Source(d) == fs[Expand(downloads[d].remote_path)].bytes

Terminal(status) == status \in {"completed", "failed"}

\* C1: once a record's status is completed or failed, no step changes its
\* status or adds total_size, completed_at or error to it.
C1_TerminalImmutable ==
    [][\A d \in DOMAIN downloads :
          Terminal(downloads[d].status) =>
             /\ downloads'[d].status = downloads[d].status
             /\ DOMAIN downloads'[d] = DOMAIN downloads[d]]_vars

\* C2: the payloads of the file_chunk messages sent for a download,
\* decoded as the server writes them and put together in send order, are a
\* prefix of the source file and, once file_complete is sent, the whole of
\* it; the destination file holds a prefix of the source and, once the
\* record is completed, exactly the source bytes.
C2_RoundTrip ==
    \A d \in DOMAIN downloads : \A t \in Tunnels :
        LET sent == Payloads(wire[t], d)
            dest == DiskContent(downloads[d].file_path)
        IN /\ IsPrefix(sent, Source(d))
           /\ (\E i \in 1..Len(wire[t]) : IsCompleteFor(wire[t][i], d))
                 => sent = Source(d)
           /\ IsPrefix(dest, Source(d))
           /\ downloads[d].status = "completed" => dest = Source(d)

\* a file of two chunks whose first byte is 255 has been reassembled
C2_Witness ==
    \E d \in DOMAIN downloads :
        /\ downloads[d].status = "completed"
        /\ chunk_size = 1
        /\ Len(Source(d)) = 2
        /\ Source(d)[1] = 255
        /\ DiskContent(downloads[d].file_path) = Source(d)

\* C3: once the server has handled the file_complete of a known download,
\* the record is completed and its total_size is the sum of the payload
\* lengths of the file_chunk messages sent for that download.
C3_CompletedSize ==
    \A t \in Tunnels : \A i \in 1..Len(Processed(t)) :
        LET m == Processed(t)[i] IN
        (m.type = "file_complete" /\ m.download_id \in DOMAIN downloads) =>
            /\ downloads[m.download_id].status = "completed"
            /\ downloads[m.download_id].total_size
                  = PayloadLength(wire[t], m.download_id)

\* a three-byte file sent in two chunks is recorded as completed, size 3
C3_Witness ==
    \E d \in DOMAIN downloads :
        /\ downloads[d].status = "completed"
        /\ downloads[d].total_size = 3
        /\ downloads[d].chunks_received = 2

\* C4 as claimed: a dispatch to an identity that is not in the registry is
\* answered 404 (client not connected), stores no record and sends nothing.
C4_AlwaysNotConnected ==
    [][\A c \in Identities, p \in RemotePaths :
          (c \notin DOMAIN connected_clients /\ TriggerDownload(c, p)) =>
             /\ resp'.status = 404
             /\ downloads' = downloads
             /\ tun' = tun]_vars

\* C4: a dispatch to an identity that is not in the registry is answered
\* with an error, 404 (client not connected) for a non-empty identity and
\* 400 (client_id is required) for the empty one, never with a success; it
\* stores no record, draws no download_id and sends nothing on any connection.
C4_AbsentNeverDispatched ==
    [][\A c \in Identities, p \in RemotePaths :
          (c \notin DOMAIN connected_clients /\ TriggerDownload(c, p)) =>
             /\ resp'.status = (IF c = "" THEN 400 ELSE 404)
             /\ downloads' = downloads
             /\ nuuid' = nuuid
             /\ tun' = tun]_vars

\* a dispatch was answered 404 while the client was registered and before
\* any record existed: it named an identity that is not registered
C4_Witness ==
    /\ resp.status = 404
    /\ ClientId \in DOMAIN connected_clients
    /\ downloads = <<>>

UnknownId(m) ==
    /\ m.type \in {"file_chunk", "file_complete", "error"}
    /\ m.download_id \notin DOMAIN downloads

\* C5: when the server handles a file_chunk, file_complete or error whose
\* download_id is no key of the tracker, the tracker, the files and the
\* registry stay as they are and the connection's handler stays alive.
C5_UnknownIdNoOp ==
    [][\A t \in Tunnels :
          (ServerRecv(t) /\ UnknownId(Head(tun[t].c2s))) =>
             /\ downloads' = downloads
             /\ disk' = disk
             /\ connected_clients' = connected_clients
             /\ tun'[t].s_open]_vars

\* a connection on which a message with an unknown id was handled and a
\* register sent after it was handled too and took effect
C5_Witness ==
    \E t \in Tunnels : \E i, j \in 1..Len(Processed(t)) :
        /\ i < j
        /\ Processed(t)[i].type \in {"file_chunk", "file_complete", "error"}
        /\ Processed(t)[i].download_id = BogusId
        /\ Processed(t)[j].type = "register"
        /\ Processed(t)[j].client_id \in DOMAIN connected_clients
        /\ connected_clients[Processed(t)[j].client_id] = t
        /\ tun[t].s_open

\* ceil(n / k) for n >= 0, k >= 1
Ceil(n, k) == CHOOSE q \in 0..n : q * k >= n /\ (q = 0 \/ (q - 1) * k < n)

C6_State ==
    /\ cl.pc = "send" => cl.loc.total_chunks = Ceil(cl.loc.file_size, chunk_size)
    /\ \A t \in Tunnels : \A i \in 1..Len(wire[t]) :
          LET m == wire[t][i] IN
          /\ m.type = "file_chunk" =>
                /\ m.total_chunks = Ceil(Len(Source(m.download_id)), chunk_size)
                /\ Source(m.download_id) # <<>>
          /\ (m.type = "file_complete" /\ Source(m.download_id) = <<>>) =>
                m.total_size = 0 /\ m.total_chunks = 0

C6_Step ==
    (cl.pc = "send" /\ cl.loc.file_size = 0 /\ cl' # cl) =>
        /\ Len(wire'[cl.ws]) = Len(wire[cl.ws]) + 1
        /\ wire'[cl.ws][Len(wire'[cl.ws])] =
              [type |-> "file_complete", download_id |-> cl.loc.download_id,
               total_size |-> 0, total_chunks |-> 0]

\* C6: the total_chunks that send_file announces is the least q with
\* q * chunk_size >= file_size; for a zero-byte file it is 0, no
\* file_chunk is sent, and the client's next message is file_complete
\* with total_size 0 and total_chunks 0.
C6_TotalChunks == [](C6_State) /\ [][C6_Step]_vars

\* the first of the two chunks of a three-byte file is out, chunk size 2
C6_Witness ==
    /\ cl.pc = "send"
    /\ chunk_size = 2
    /\ cl.loc.file_size = 3
    /\ cl.loc.total_chunks = 2
    /\ cl.loc.chunk_num = 1

\* C7: when a connection's handler ends (and is not registering in that
\* very step), the registry entries that map an identity to another
\* connection stay in place.
C7_UnregisterOnlyOwn ==
    [][\A t \in Tunnels :
          (/\ tun[t].s_open
           /\ ~tun'[t].s_open
           /\ ~(ServerRecv(t) /\ Head(tun[t].c2s).type = "register")) =>
             \A c \in DOMAIN connected_clients :
                connected_clients[c] # t =>
                   /\ c \in DOMAIN connected_clients'
                   /\ connected_clients'[c] = connected_clients[c]]_vars

\* a record still downloading, some of its chunks received, whose
\* connection is closed at both ends
Orphaned(d) ==
    /\ d \in DOMAIN downloads
    /\ d \in DOMAIN via
    /\ downloads[d].status = "downloading"
    /\ downloads[d].chunks_received > 0
    /\ ~tun[via[d]].c_open
    /\ ~tun[via[d]].s_open

\* C8: a record that is downloading, mid-transfer, when its connection has
\* closed eventually becomes failed.
C8_OrphanFails ==
    \A d \in {Uuid(n) : n \in 1..MaxDownloads} :
        Orphaned(d) ~> (d \in DOMAIN downloads /\ downloads[d].status = "failed")

\* how many file_chunk messages seq holds after its first n messages
ChunksAfter(seq, n) ==
    Cardinality({i \in (n + 1)..Len(seq) : seq[i].type = "file_chunk"})

\* C9: while a ping waits unanswered in the client's inbox, the client has
\* sent at most one file_chunk since the ping arrived.
C9_PongWithinOneChunk ==
    cl.ws \in Tunnels =>
       \A i \in 1..Len(tun[cl.ws].s2c) :
          LET m == tun[cl.ws].s2c[i] IN
          m.type = "ping" => ChunksAfter(wire[cl.ws], m.at) <= 1

\* C10: a message that does not parse is dropped and the session goes on:
\* the server's handler stays alive and the registry is as before; the
\* client stays in its message loop with its connection open.
C10_MalformedDiscarded ==
    [][/\ \A t \in Tunnels :
             (ServerRecv(t) /\ Malformed(Head(tun[t].c2s))) =>
                /\ tun'[t].s_open
                /\ connected_clients' = connected_clients
       /\ (ClientRecv /\ Malformed(Head(tun[cl.ws].s2c))) =>
             /\ cl'.pc = "loop"
             /\ tun'[cl.ws].c_open]_vars

\* the client end of the client's connection closes in this step, or its
\* connection attempt fails, and the user did not interrupt
SessionEnds ==
    /\ ~ClientStop
    /\ \/ cl.pc \in {"loop", "send"} /\ tun[cl.ws].c_open /\ ~tun'[cl.ws].c_open
       \/ cl.pc = "connect" /\ cl' # cl /\ ntun' = ntun

\* C11: every session end that is not the user's stop takes the client to
\* its retry delay, from which it goes on to another connection attempt
\* (unless the user stops it meanwhile), and every attempt is carried out;
\* after the user's stop the client stays stopped and opens no connection.
C11_ReconnectDriver ==
    /\ [][SessionEnds => cl'.pc = "sleep" /\ cl'.running]_vars
    /\ [][(cl.pc = "sleep" /\ cl' # cl /\ ~ClientStop) => cl'.pc = "connect"]_vars
    /\ (cl.pc = "sleep") ~> (cl.pc \in {"connect", "stopped"})
    /\ (cl.pc = "connect") ~> (cl.pc \in {"loop", "sleep", "stopped"})
    /\ [][cl.pc = "stopped" =>
            /\ cl' = cl
            /\ ntun' = ntun
            /\ wire' = wire]_vars

\* the first session ended without a stop and the client is registered
\* again on a second connection
C11_Witness ==
    /\ cl.pc = "loop"
    /\ cl.running
    /\ cl.ws = 2
    /\ ~tun[1].c_open
    /\ ClientId \in DOMAIN connected_clients
    /\ connected_clients[ClientId] = 2

Max(a, b) == IF a > b THEN a ELSE b

\* C12: chunks_received never decreases, and a file_chunk for a known
\* download sets it to the larger of its value and the chunk_num received.
C12_ChunksMonotonic ==
    [][/\ \A d \in DOMAIN downloads :
             downloads'[d].chunks_received >= downloads[d].chunks_received
       /\ \A t \in Tunnels :
             (/\ ServerRecv(t)
              /\ Head(tun[t].c2s).type = "file_chunk"
              /\ Head(tun[t].c2s).download_id \in DOMAIN downloads) =>
                LET m == Head(tun[t].c2s) IN
                downloads'[m.download_id].chunks_received =
                   Max(downloads[m.download_id].chunks_received, m.chunk_num)]_vars

\* C13: when the server handles a file_chunk for a record whose status is
\* not downloading, the destination files stay as they are.
C13_ChunkAfterTerminal ==
    [][\A t \in Tunnels :
          (/\ ServerRecv(t)
           /\ Head(tun[t].c2s).type = "file_chunk"
           /\ Head(tun[t].c2s).download_id \in DOMAIN downloads
           /\ downloads[Head(tun[t].c2s).download_id].status # "downloading") =>
             disk' = disk]_vars

\* m is a message of the transfer of download d
About(m, d) ==
    /\ m.type \in {"file_chunk", "file_complete", "error"}
    /\ m.download_id = d

IsTerminalFor(m, d) ==
    /\ m.type \in {"file_complete", "error"}
    /\ m.download_id = d

\* C14: on every connection of the client, when a file_chunk of one
\* download follows a file_chunk of another, the terminal message
\* (file_complete or error) of the earlier download lies between them and
\* no message of the earlier download comes after: the transfers of two
\* downloads never interleave.
C14_OneStreamPerTunnel ==
    \A t \in Tunnels : \A i, j \in 1..Len(wire[t]) :
        (/\ i < j
         /\ wire[t][i].type = "file_chunk"
         /\ wire[t][j].type = "file_chunk"
         /\ wire[t][i].download_id # wire[t][j].download_id) =>
            /\ \E k \in (i + 1)..(j - 1) :
                  IsTerminalFor(wire[t][k], wire[t][i].download_id)
            /\ \A k \in (j + 1)..Len(wire[t]) :
                  ~About(wire[t][k], wire[t][i].download_id)

\* two downloads of the file were streamed on one connection, and the
\* client is sending the second after it finished the first
C14_Witness ==
    /\ cl.pc = "send"
    /\ cl.loc.download_id = Uuid(2)
    /\ cl.loc.chunk_num = 1
    /\ Uuid(1) \in DOMAIN via /\ Uuid(2) \in DOMAIN via
    /\ via[Uuid(1)] = cl.ws /\ via[Uuid(2)] = cl.ws
    /\ \E i \in 1..Len(wire[cl.ws]) : IsChunkFor(wire[cl.ws][i], Uuid(1))
    /\ \E i \in 1..Len(wire[cl.ws]) : IsCompleteFor(wire[cl.ws][i], Uuid(1))

\* the places of seq that hold a terminal message of download d
Terminals(seq, d) == {i \in 1..Len(seq) : IsTerminalFor(seq[i], d)}

\* the download_request of d still waits in the inbox of connection t
Waiting(t, d) ==
    \E i \in 1..Len(tun[t].s2c) :
        /\ tun[t].s2c[i].type = "download_request"
        /\ tun[t].s2c[i].download_id = d

\* the client has handled the download_request of d on its connection,
\* which is still open at its end
Handled(d) ==
    /\ d \in DOMAIN via
    /\ cl.pc \in {"loop", "send"}
    /\ via[d] = cl.ws
    /\ tun[cl.ws].c_open
    /\ ~Waiting(cl.ws, d)
    /\ ~(cl.pc = "send" /\ cl.loc.download_id = d)

\* C15: on every connection the client sends at most one terminal message
\* per download and no file_chunk of the download after it; once it has
\* handled a download_request on a connection that is still open it has
\* sent exactly one, file_complete when the file could be read and error
\* when it is missing.
C15_OneTerminal ==
    \A d \in DOMAIN via :
        LET sent == wire[via[d]]
            exists == Expand(downloads[d].remote_path) \in DOMAIN fs
        IN /\ Cardinality(Terminals(sent, d)) <= 1
           /\ \A i \in Terminals(sent, d) :
                 /\ \A k \in (i + 1)..Len(sent) : ~IsChunkFor(sent[k], d)
                 /\ sent[i].type = (IF exists THEN "file_complete" ELSE "error")
           /\ Handled(d) => Cardinality(Terminals(sent, d)) = 1

\* on one open connection the client has answered one request with error
\* (no such file) and another with file_complete after its chunks
C15_Witness ==
    \E d, e \in DOMAIN via :
        /\ Handled(d) /\ Handled(e)
        /\ \E i \in Terminals(wire[cl.ws], d) : wire[cl.ws][i].type = "error"
        /\ \E i \in Terminals(wire[cl.ws], e) : wire[cl.ws][i].type = "file_complete"
        /\ \E i \in 1..Len(wire[cl.ws]) : IsChunkFor(wire[cl.ws][i], e)

\* the file_chunk messages of seq for download d, in order
RECURSIVE ChunksOf(_, _)
ChunksOf(seq, d) ==
    IF seq = <<>> THEN <<>>
    ELSE (IF IsChunkFor(Head(seq), d) THEN <<Head(seq)>> ELSE <<>>)
         \o ChunksOf(Tail(seq), d)

\* C16: the file_chunk messages the client sends for a download carry
\* chunk_num 1, 2, ..., n in that order and all the same total_chunks, and
\* the file_complete that follows carries total_chunks = n, which is the
\* total_chunks the chunks announced.
C16_ChunkNumbering ==
    \A d \in DOMAIN downloads : \A t \in Tunnels :
        LET chunks == ChunksOf(wire[t], d) IN
        /\ \A i \in 1..Len(chunks) :
              /\ chunks[i].chunk_num = i
              /\ chunks[i].total_chunks = chunks[1].total_chunks
        /\ \A k \in 1..Len(wire[t]) :
              IsCompleteFor(wire[t][k], d) =>
                 /\ ChunksOf(SubSeq(wire[t], 1, k - 1), d) = chunks
                 /\ wire[t][k].total_chunks = Len(chunks)
                 /\ \A i \in 1..Len(chunks) :
                       chunks[i].total_chunks = wire[t][k].total_chunks

\* a three-byte file went out in three chunks of one byte and file_complete
\* says 3
C16_Witness ==
    \E d \in DOMAIN downloads : \E t \in Tunnels : \E k \in 1..Len(wire[t]) :
        /\ IsCompleteFor(wire[t][k], d)
        /\ wire[t][k].total_chunks = 3
        /\ Len(ChunksOf(wire[t], d)) = 3
        /\ chunk_size = 1

\* every download_request on its way, and every message a client has sent
\* about a download, names a record of the tracker
C17_State ==
    \A t \in Tunnels :
        /\ \A i \in 1..Len(tun[t].s2c) :
              tun[t].s2c[i].type = "download_request" =>
                 tun[t].s2c[i].download_id \in DOMAIN downloads
        /\ \A i \in 1..Len(wire[t]) :
              wire[t][i].type \in {"file_chunk", "file_complete", "error"} =>
                 wire[t][i].download_id \in DOMAIN downloads

\* a step that puts a download_request on a connection leaves its record
\* in the tracker, in status downloading
C17_Step ==
    \A t \in Tunnels :
        (/\ Len(tun'[t].s2c) > Len(tun[t].s2c)
         /\ tun'[t].s2c[Len(tun'[t].s2c)].type = "download_request") =>
            LET d == tun'[t].s2c[Len(tun'[t].s2c)].download_id IN
            /\ d \in DOMAIN downloads'
            /\ downloads'[d].status = "downloading"

\* C17: the record of a download is in the tracker, in status downloading,
\* when its download_request goes out, so every file_chunk, file_complete
\* or error the client sends in answer finds its record.
C17_RecordBeforeRequest == [](C17_State) /\ [][C17_Step]_vars

\* the server has handled the first file_chunk a client sent in answer to
\* a download_request, and counted it in the record
C17_Witness ==
    \E d \in DOMAIN via :
        /\ \E i \in 1..Len(Processed(via[d])) : IsChunkFor(Processed(via[d])[i], d)
        /\ d \in DOMAIN downloads
        /\ downloads[d].chunks_received = 1

\* C18: no entry of the registry maps an identity to a connection whose
\* handler has ended.
C18_EntriesDieWithTunnel ==
    \A c \in DOMAIN connected_clients : tun[connected_clients[c]].s_open

\* C19: two different records of the tracker have different destination
\* files.
C19_DistinctLocalPath ==
    \A d, e \in DOMAIN downloads :
        d # e => downloads[d].file_path # downloads[e].file_path

\* C20: when the server handles a file_chunk, file_complete or error for a
\* download on a connection registered under another identity than the one
\* the download was dispatched to, the record and the destination files
\* stay as they are.
C20_OnlyOwningTunnel ==
    [][\A t \in Tunnels :
          (/\ ServerRecv(t)
           /\ Head(tun[t].c2s).type \in {"file_chunk", "file_complete", "error"}
           /\ Head(tun[t].c2s).download_id \in DOMAIN via
           /\ via[Head(tun[t].c2s).download_id] # t
           /\ tun[t].client_id # None
           /\ tun[t].client_id # downloads[Head(tun[t].c2s).download_id].client_id) =>
             /\ downloads' = downloads
             /\ disk' = disk]_vars

\* C21: a dispatch that is answered with an error (a status other than
\* 200) leaves the tracker as it was.
C21_FailedDispatchNoRecord ==
    [][\A c \in Identities, p \in RemotePaths :
          (TriggerDownload(c, p) /\ resp'.status # 200) =>
             downloads' = downloads]_vars

====
